---- MODULE Spec2Model ----
(***************************************************************************)
(* A model of SpecValidator (internal/validate/spec.go): the semantic      *)
(* validator of a Swagger 2.0 document.                                    *)
(*                                                                         *)
(* Strings are modelled as sequences of tokens ("texts"): "" is << >>,     *)
(* a + b is a \o b.  A path such as /a/{x} is the text                     *)
(* <<"/","a","/","{","x","}">>, so that strings.Split and the brace test   *)
(* of parsePath are computed, not assumed.  Go maps are functions (or      *)
(* sets of keys); ranging over a map visits the keys in an order the       *)
(* model chooses nondeterministically.                                     *)
(***************************************************************************)
EXTENDS Integers, Sequences, FiniteSets, TLC

VARIABLES doc, pc, errs, warnings, expanded, run, prev

vars == <<doc, pc, errs, warnings, expanded, run, prev>>

(***************************************************************************)
(* Generic helpers                                                         *)
(***************************************************************************)

\* every order in which a Go `range` may visit the keys S of a map
Perms(S) ==
  {f \in [1..Cardinality(S) -> S] : \A i, j \in 1..Cardinality(S) : f[i] = f[j] => i = j}

Range(s) == {s[i] : i \in 1..Len(s)}

RECURSIVE Flatten(_)
\* append(a, b...) folded over a sequence of sequences
Flatten(ss) == IF Len(ss) = 0 THEN << >> ELSE Head(ss) \o Flatten(Tail(ss))

\* number of entries of the sequence s that satisfy equality with e
Count(s, e) == Cardinality({i \in 1..Len(s) : s[i] = e})

(***************************************************************************)
(* Diagnostics: errors.New(code, format, args...)                          *)
(***************************************************************************)

NewError(code, kind, args, n) == [code |-> code, kind |-> kind, args |-> args, n |-> n]

\* Result.HasErrors
HasErrors(res) == Len(res) > 0

\* an outcome of a phase: the errors it adds, and whether it panicked
Outcome(res, panicked) == [errs |-> res, panic |-> panicked]

(***************************************************************************)
(* The document                                                            *)
(***************************************************************************)

NoRef == << >>

\* "#/definitions/" + k
DefinitionPointer(k) == <<"#/definitions/", k>>

\* spec.Schema, the fields the validator reads
Schema(ref, properties, allOf, required, patternProperties, additionalProperties) ==
  [ref |-> ref, properties |-> properties, allOf |-> allOf, required |-> required,
   patternProperties |-> patternProperties, additionalProperties |-> additionalProperties]

\* a schema that only composes: {$ref}, {properties}, {allOf}
Compose(ref, properties, allOf) == Schema(ref, properties, allOf, << >>, {}, "absent")

\* spec.ResolveRef succeeds
Resolvable(defs, ref) ==
  /\ Len(ref) = 2
  /\ ref[1] = "#/definitions/"
  /\ ref[2] \in DOMAIN defs

\* spec.ResolveRef(s.spec.Spec(), &sch.Ref)
ResolveRef(defs, ref) == defs[ref[2]]

(***************************************************************************)
(* Circular ancestry and duplicate property names                          *)
(***************************************************************************)

\* frames the recursion of validateSchemaPropertyNames may use before the
\* goroutine's stack is exhausted (a fatal error, modelled as a panic)
MaxDepth == 6

RECURSIVE validateCircularAncestry(_, _, _, _)
RECURSIVE CircularAncestryChildren(_, _, _, _, _)

\* the loop over schc.AllOf in validateCircularAncestry; knowns is one map
\* shared by every call, so each child sees what the earlier ones added
CircularAncestryChildren(defs, schn, children, i, knowns) ==
  IF i > Len(children)
  THEN [ancs |-> << >>, knowns |-> knowns, panic |-> FALSE]
  ELSE LET r == validateCircularAncestry(defs, schn, children[i], knowns)
       IN IF r.panic \/ Len(r.ancs) > 0
          THEN r
          ELSE CircularAncestryChildren(defs, schn, children, i + 1, r.knowns)

\* validateCircularAncestry(nm, sch, knowns): the ancestors found circular
validateCircularAncestry(defs, nm, sch, knowns) ==
  IF sch.ref # NoRef /\ ~Resolvable(defs, sch.ref)
  THEN [ancs |-> << >>, knowns |-> knowns, panic |-> TRUE]
  ELSE LET schc == IF sch.ref # NoRef THEN ResolveRef(defs, sch.ref) ELSE sch
           schn == IF sch.ref # NoRef THEN sch.ref ELSE nm
           kn   == IF sch.ref # NoRef THEN knowns \cup {schn} ELSE knowns
       IN IF schn \in kn
          THEN [ancs |-> <<schn>>, knowns |-> kn, panic |-> FALSE]
          ELSE CircularAncestryChildren(defs, schn, schc.allOf, 1, kn)

\* dupProp{Name, Definition}
dupProp(name, definition) == [Name |-> name, Definition |-> definition]

RECURSIVE validateSchemaPropertyNames(_, _, _, _, _)
RECURSIVE SchemaPropertyNamesChildren(_, _, _, _, _, _, _)

\* the loop over schc.AllOf in validateSchemaPropertyNames; dups is the set
\* of the sequences the appends may have built so far
SchemaPropertyNamesChildren(defs, schn, children, i, knowns, depth, dups) ==
  IF i > Len(children)
  THEN [dups |-> dups, knowns |-> knowns, panic |-> FALSE]
  ELSE LET r == validateSchemaPropertyNames(defs, schn, children[i], knowns, depth + 1)
       IN IF r.panic
          THEN r
          ELSE SchemaPropertyNamesChildren(defs, schn, children, i + 1, r.knowns, depth,
                                           {a \o d : a \in dups, d \in r.dups})

\* validateSchemaPropertyNames(nm, sch, knowns).  The properties of a leaf
\* are a map: the duplicates are appended in any order, so the result is the
\* set of the sequences that can be returned.
validateSchemaPropertyNames(defs, nm, sch, knowns, depth) ==
  IF depth > MaxDepth \/ (sch.ref # NoRef /\ ~Resolvable(defs, sch.ref))
  THEN [dups |-> {}, knowns |-> knowns, panic |-> TRUE]
  ELSE LET schc == IF sch.ref # NoRef THEN ResolveRef(defs, sch.ref) ELSE sch
           schn == IF sch.ref # NoRef THEN sch.ref ELSE nm
       IN IF Len(schc.allOf) > 0
          THEN SchemaPropertyNamesChildren(defs, schn, schc.allOf, 1, knowns, depth, {<< >>})
          ELSE LET again == schc.properties \cap knowns
               IN [dups   |-> {[i \in 1..Cardinality(again) |-> dupProp(o[i], schn)] :
                                 o \in Perms(again)},
                   knowns |-> knowns \cup schc.properties,
                   panic  |-> FALSE]

\* v.Definition + "." + v.Name, for every duplicate
PropertyNameList(dups) == [i \in 1..Len(dups) |-> dups[i].Definition \o <<".">> \o dups[i].Name]

CircularAncestryError(k, ancs) == NewError(422, "has circular ancestry", <<<<k>>>> \o ancs, 0)

DuplicatePropertiesError(k, pns) == NewError(422, "contains duplicate properties", <<<<k>>>> \o pns, 0)

RECURSIVE DuplicatePropertyNamesLoopUnchecked(_, _, _, _)
\* the loop without the call of validateCircularAncestry (lines 126-130)
DuplicatePropertyNamesLoopUnchecked(defs, order, i, res) ==
  IF i > Len(order)
  THEN {Outcome(res, FALSE)}
  ELSE LET k   == order[i]
           sch == defs[k]
       IN IF Len(sch.allOf) = 0
          THEN DuplicatePropertyNamesLoopUnchecked(defs, order, i + 1, res)
          ELSE LET p == validateSchemaPropertyNames(defs, <<k>>, sch, {}, 0)
               IN IF p.panic
                  THEN {Outcome(res, TRUE)}
                  ELSE UNION {DuplicatePropertyNamesLoopUnchecked(defs, order, i + 1,
                                IF Len(d) > 0
                                THEN Append(res, DuplicatePropertiesError(k, PropertyNameList(d)))
                                ELSE res) : d \in p.dups}

RECURSIVE DuplicatePropertyNamesLoop(_, _, _, _)
\* the loop of validateDuplicatePropertyNames over the definitions, visited
\* in `order`; the set of the outcomes it can produce
DuplicatePropertyNamesLoop(defs, order, i, res) ==
  IF i > Len(order)
  THEN {Outcome(res, FALSE)}
  ELSE LET k   == order[i]
           sch == defs[k]
       IN IF Len(sch.allOf) = 0
          THEN DuplicatePropertyNamesLoop(defs, order, i + 1, res)
          ELSE LET a == validateCircularAncestry(defs, <<k>>, sch, {DefinitionPointer(k)})
               IN IF a.panic
                  THEN {Outcome(res, TRUE)}
                  ELSE IF Len(a.ancs) > 0
                  THEN {Outcome(Append(res, CircularAncestryError(k, a.ancs)), FALSE)}
                  ELSE LET p == validateSchemaPropertyNames(defs, <<k>>, sch, {}, 0)
                       IN IF p.panic
                          THEN {Outcome(res, TRUE)}
                          ELSE UNION {DuplicatePropertyNamesLoop(defs, order, i + 1,
                                        IF Len(d) > 0
                                        THEN Append(res, DuplicatePropertiesError(k, PropertyNameList(d)))
                                        ELSE res) : d \in p.dups}

\* validateDuplicatePropertyNames: every outcome, over every visiting order
validateDuplicatePropertyNames(d) ==
  UNION {DuplicatePropertyNamesLoop(d.definitions, order, 1, << >>) :
           order \in Perms(DOMAIN d.definitions)}

(***************************************************************************)
(* Required names of a definition                                          *)
(***************************************************************************)

\* regexp.MustCompile(pp) panics: the pattern has an unclosed group
Malformed(pp) == \E i \in 1..Len(pp) : pp[i] = "("

\* the literal of a pattern ^lit$, ^lit, lit$ or lit
PatternLiteral(pp) ==
  LET from == IF Len(pp) > 0 /\ pp[1] = "^" THEN 2 ELSE 1
      to   == IF Len(pp) >= from /\ pp[Len(pp)] = "$" THEN Len(pp) - 1 ELSE Len(pp)
  IN SubSeq(pp, from, to)

\* a match that must cover the whole name, as if every pattern were ^...$
MatchStringWhole(pp, pn) == PatternLiteral(pp) = pn

\* re.MatchString(pn): an unanchored search, unless the pattern anchors it
MatchString(pp, pn) ==
  LET lit   == PatternLiteral(pp)
      atBeg == Len(pp) > 0 /\ pp[1] = "^"
      atEnd == Len(pp) > (IF atBeg THEN 1 ELSE 0) /\ pp[Len(pp)] = "$"
  IN \E i \in 1..(Len(pn) + 1) :
       /\ i + Len(lit) - 1 <= Len(pn)
       /\ SubSeq(pn, i, i + Len(lit) - 1) = lit
       /\ atBeg => i = 1
       /\ atEnd => i + Len(lit) - 1 = Len(pn)

RECURSIVE PatternPropertiesLoop(_, _, _)
\* the loop over v.PatternProperties, visited in `order`, for the name pn
PatternPropertiesLoop(order, i, pn) ==
  IF i > Len(order) THEN "none"
  ELSE IF Malformed(order[i]) THEN "panic"
  ELSE IF MatchString(order[i], pn) THEN "match"
  ELSE PatternPropertiesLoop(order, i + 1, pn)

\* what the body of the REQUIRED loop can do with the name pn of schema v
RequiredName(v, pn) ==
  IF pn \in v.properties
  THEN {"continue"}
  ELSE {LET m == PatternPropertiesLoop(order, 1, pn)
        IN IF m = "panic" THEN "panic"
           ELSE IF m = "match" THEN "continue"
           ELSE IF v.additionalProperties # "absent" /\ v.additionalProperties = "true"
           THEN "continue"
           ELSE IF v.additionalProperties # "absent" /\ v.additionalProperties = "schema"
           THEN "continue"
           ELSE "error" : order \in Perms(v.patternProperties)}

RequiredError(pn, d) ==
  NewError(422, "is present in required but not defined as property", <<pn, <<d>>>>, 0)

RECURSIVE RequiredLoop(_, _, _, _)
\* the REQUIRED loop over v.Required for the definition d
RequiredLoop(d, v, j, res) ==
  IF j > Len(v.required)
  THEN {Outcome(res, FALSE)}
  ELSE UNION {IF o = "panic" THEN {Outcome(res, TRUE)}
              ELSE RequiredLoop(d, v, j + 1,
                     IF o = "error" THEN Append(res, RequiredError(v.required[j], d)) ELSE res) :
              o \in RequiredName(v, v.required[j])}

RECURSIVE RequiredDefinitionsLoop(_, _, _, _)
\* the loop of validateRequiredDefinitions over the definitions
RequiredDefinitionsLoop(defs, order, i, res) ==
  IF i > Len(order)
  THEN {Outcome(res, FALSE)}
  ELSE UNION {IF o.panic THEN {o} ELSE RequiredDefinitionsLoop(defs, order, i + 1, o.errs) :
              o \in RequiredLoop(order[i], defs[order[i]], 1, res)}

\* validateRequiredDefinitions: every outcome, over every visiting order
validateRequiredDefinitions(d) ==
  UNION {RequiredDefinitionsLoop(d.definitions, order, 1, << >>) :
           order \in Perms(DOMAIN d.definitions)}

(***************************************************************************)
(* Paths and parameters                                                    *)
(***************************************************************************)

\* spec.Parameter, the fields the validator reads
Parameter(ref, name, in, type, chain, schema) ==
  [ref |-> ref, name |-> name, in |-> in, type |-> type, chain |-> chain, schema |-> schema]

RECURSIVE Split(_, _)
\* strings.Split(path, "/"), with cur the segment being read
Split(path, cur) ==
  IF Len(path) = 0 THEN <<cur>>
  ELSE IF Head(path) = "/" THEN <<cur>> \o Split(Tail(path), << >>)
  ELSE Split(Tail(path), Append(cur, Head(path)))

\* the test of parsePath: len(p) > 0 && p[0] == '{' && p[len(p)-1] == '}'
IsPlaceholder(p) == Len(p) > 0 /\ p[1] = "{" /\ p[Len(p)] = "}"

\* parsePath(path): the segments, and the indices of the placeholders
parsePath(path) ==
  LET segments == Split(path, << >>)
  IN [segments |-> segments,
      params   |-> SelectSeq([i \in 1..Len(segments) |-> i],
                             LAMBDA i : IsPlaceholder(segments[i]))]

\* fromPath of validateParameters: knowns[i] for every i of params
FromPath(path) ==
  LET pp == parsePath(path) IN [j \in 1..Len(pp.params) |-> pp.segments[pp.params[j]]]

RECURSIVE Join(_)
\* strings.Join(knowns, "/")
Join(segments) ==
  IF Len(segments) = 0 THEN << >>
  ELSE IF Len(segments) = 1 THEN segments[1]
  ELSE segments[1] \o <<"/">> \o Join(Tail(segments))

\* the path kept verbatim, placeholders and all
KnownPathVerbatim(path) == path

\* knownPath of validateParameters: every placeholder replaced by "!"
KnownPath(path) ==
  LET pp == parsePath(path)
  IN Join([i \in 1..Len(pp.segments) |->
             IF \E j \in 1..Len(pp.params) : pp.params[j] = i THEN <<"!">> ELSE pp.segments[i]])

\* only the first loop: the placeholders without a parameter
ValidatePathParamPresenceOneWay(path, fromPath, fromOperation) ==
  LET missing == SelectSeq(fromPath,
                   LAMBDA l : ~\E i \in 1..Len(fromOperation) :
                                 l = <<"{">> \o fromOperation[i] \o <<"}">>)
  IN [i \in 1..Len(missing) |->
        NewError(422, "path param has no parameter definition", <<missing[i]>>, 0)]

\* validatePathParamPresence(path, fromPath, fromOperation)
validatePathParamPresence(path, fromPath, fromOperation) ==
  LET missing == SelectSeq(fromPath,
                   LAMBDA l : ~\E i \in 1..Len(fromOperation) :
                                 l = <<"{">> \o fromOperation[i] \o <<"}">>)
      extra   == SelectSeq(fromOperation,
                   LAMBDA q : ~\E i \in 1..Len(fromPath) :
                                 <<"{">> \o q \o <<"}">> = fromPath[i])
  IN [i \in 1..Len(missing) |->
        NewError(422, "path param has no parameter definition", <<missing[i]>>, 0)]
     \o [i \in 1..Len(extra) |->
        NewError(422, "path param is not present in path", <<extra[i], path>>, 0)]

\* pr.Ref.GetPointer().Get(sw) succeeds
ParameterResolvable(d, ref) ==
  /\ Len(ref) = 2
  /\ ref[1] = "#/parameters/"
  /\ ref[2] \in DOMAIN d.parameters

\* the parameter after `if pr.Ref.String() != "" { pr = obj.(spec.Parameter) }`
ResolveParameter(d, pr) == IF pr.ref # NoRef THEN d.parameters[pr.ref[2]] ELSE pr

\* the error of a JSON pointer without a target (a plain error, without a code)
ResolverError(ref) == NewError(0, "object has no key", <<ref>>, 0)

RECURSIVE UniqueParametersLoopByName(_, _, _, _, _, _)
\* the loop with one set of names for every `in`
UniqueParametersLoopByName(d, op, params, i, pnames, res) ==
  IF i > Len(params) THEN res
  ELSE IF params[i].ref # NoRef /\ ~ParameterResolvable(d, params[i].ref)
  THEN Append(res, ResolverError(params[i].ref))
  ELSE LET pr == ResolveParameter(d, params[i])
       IN UniqueParametersLoopByName(d, op, params, i + 1, pnames \cup {pr.name},
            IF pr.name \in pnames
            THEN Append(res, NewError(422, "duplicate parameter name",
                                      <<pr.name, <<pr.in>>, op.id>>, 0))
            ELSE res)

RECURSIVE UniqueParametersLoop(_, _, _, _, _, _)
\* the loop over op.Parameters: ptypes holds the (in, name) pairs seen
UniqueParametersLoop(d, op, params, i, ptypes, res) ==
  IF i > Len(params) THEN res
  ELSE IF params[i].ref # NoRef /\ ~ParameterResolvable(d, params[i].ref)
  THEN Append(res, ResolverError(params[i].ref))
  ELSE LET pr == ResolveParameter(d, params[i])
       IN UniqueParametersLoop(d, op, params, i + 1, ptypes \cup {<<pr.in, pr.name>>},
            IF <<pr.in, pr.name>> \in ptypes
            THEN Append(res, NewError(422, "duplicate parameter name",
                                      <<pr.name, <<pr.in>>, op.id>>, 0))
            ELSE res)

RECURSIVE BodyAndPathLoop(_, _, _, _, _, _, _)
\* the loop over s.spec.ParamsFor(method, path)
BodyAndPathLoop(d, op, params, i, firstBodyParam, paramNames, res) ==
  IF i > Len(params) THEN [res |-> res, paramNames |-> paramNames]
  ELSE IF params[i].ref # NoRef /\ ~ParameterResolvable(d, params[i].ref)
  THEN [res |-> Append(res, ResolverError(params[i].ref)), paramNames |-> paramNames]
  ELSE LET pr == ResolveParameter(d, params[i])
       IN BodyAndPathLoop(d, op, params, i + 1,
            IF pr.in = "body" THEN pr.name ELSE firstBodyParam,
            IF pr.in = "path" THEN Append(paramNames, pr.name) ELSE paramNames,
            IF pr.in = "body" /\ firstBodyParam # << >>
            THEN Append(res, NewError(422, "more than 1 body param",
                                      <<op.id, firstBodyParam, pr.name>>, 0))
            ELSE res)

\* s.spec.ParamsFor(method, path): the parameters of the path item that the
\* operation does not redeclare, then the operation's own
ParamsFor(d, method, path) ==
  LET op     == d.operations[method][path]
      shared == IF path \in DOMAIN d.pathParameters THEN d.pathParameters[path] ELSE << >>
  IN SelectSeq(shared,
       LAMBDA q : ~\E i \in 1..Len(op.parameters) :
                     /\ op.parameters[i].in = q.in
                     /\ op.parameters[i].name = q.name)
     \o op.parameters

\* the body of the loop over the paths of a method, for one path
OperationParameters(d, method, path, knownPaths, res) ==
  LET op        == d.operations[method][path]
      knownPath == KnownPath(path)
      seen      == {kp \in knownPaths : kp[1] = knownPath}
      res1      == IF seen # {}
                   THEN Append(res, NewError(422, "path overlaps with",
                                             <<path, (CHOOSE kp \in seen : TRUE)[2]>>, 0))
                   ELSE res
      res2      == UniqueParametersLoop(d, op, op.parameters, 1, {}, res1)
      scan      == BodyAndPathLoop(d, op, ParamsFor(d, method, path), 1, << >>, << >>, res2)
  IN [knownPaths |-> IF seen # {} THEN knownPaths ELSE knownPaths \cup {<<knownPath, path>>},
      res        |-> scan.res \o validatePathParamPresence(path, FromPath(path), scan.paramNames)]

RECURSIVE PathsLoop(_, _, _, _, _, _)
\* the loop over the paths of one method, visited in `order`
PathsLoop(d, method, order, i, knownPaths, res) ==
  IF i > Len(order) THEN res
  ELSE LET o == OperationParameters(d, method, order[i], knownPaths, res)
       IN PathsLoop(d, method, order, i + 1, o.knownPaths, o.res)

RECURSIVE MethodsLoop(_, _, _, _)
\* the loop of validateParameters over the methods, visited in `order`
MethodsLoop(d, order, i, res) ==
  IF i > Len(order) THEN {res}
  ELSE UNION {MethodsLoop(d, order, i + 1, PathsLoop(d, order[i], paths, 1, {}, res)) :
              paths \in Perms(DOMAIN d.operations[order[i]])}

\* validateParameters: every outcome, over every visiting order
validateParameters(d) ==
  {Outcome(res, FALSE) :
     res \in UNION {MethodsLoop(d, order, 1, << >>) : order \in Perms(DOMAIN d.operations)}}

(***************************************************************************)
(* Arrays without an element type                                          *)
(***************************************************************************)

RECURSIVE SeqProduct(_)
\* the concatenations a1 \o a2 \o ... with each ai drawn from the i-th set
SeqProduct(ss) ==
  IF Len(ss) = 0 THEN {<< >>}
  ELSE {a \o b : a \in Head(ss), b \in SeqProduct(Tail(ss))}

\* what a `range` over the map keys can append, F[k] being the set of the
\* sequences the body can append for the key k
RangeOver(keys, F) ==
  UNION {SeqProduct([i \in 1..Cardinality(keys) |-> F[order[i]]]) : order \in Perms(keys)}

\* a pointer is nil (<< >>) or holds one value (<<v>>)
IsNil(ptr) == Len(ptr) = 0

\* spec.SimpleSchema / spec.Items, whose nested Items form a chain: `chain`
\* lists the types of Items, Items.Items, ... down to the nil pointer
SimpleSchema(type, chain) == [type |-> type, chain |-> chain]

\* SimpleSchema.TypeName
TypeName(x) == x.type

\* SimpleSchema.ItemsTypeName: "" when Items is nil
ItemsTypeName(x) == IF Len(x.chain) = 0 THEN "" ELSE x.chain[1]

RECURSIVE NestedItemsLoop(_, _)
\* for items.TypeName() == "array" { ... items = items.Items }: TRUE when
\* the loop reports a collection without an element type
NestedItemsLoop(chain, j) ==
  IF chain[j] # "array" THEN FALSE
  ELSE IF j + 1 > Len(chain) \/ chain[j + 1] = "" THEN TRUE
  ELSE NestedItemsLoop(chain, j + 1)

\* spec.Schema as validateSchemaItems reads it: whether Type contains
\* "array", and Items (nil, or a SchemaOrArray of one schema or a tuple)
ItemsSchema(array, items) == [array |-> array, items |-> items]

SchemaOrArray(schema, schemas) == [schema |-> schema, schemas |-> schemas]

\* SchemaOrArray.Len
ItemsLen(it) == IF ~IsNil(it.schema) THEN 1 ELSE Len(it.schemas)

RECURSIVE validateSchemaItems(_)
\* validateSchemaItems(schema, prefix, opID) returns an error
validateSchemaItems(schema) ==
  IF ~schema.array THEN FALSE
  ELSE IF IsNil(schema.items) \/ ItemsLen(schema.items[1]) = 0 THEN TRUE
  ELSE LET schemas == IF ~IsNil(schema.items[1].schema)
                      THEN <<schema.items[1].schema[1]>>
                      ELSE schema.items[1].schemas
       IN \E i \in 1..Len(schemas) : validateSchemaItems(schemas[i])

NoElementType(kind, args) == NewError(422, kind, args, 0)

\* a nil pointer dereference
NilDereference == NewError(0, "panic", << >>, 0)

\* the body of the loop over s.spec.ParamsFor(method, path) in validateItems
ParamItems(param, op) ==
  IF TypeName(param) = "array" /\ ItemsTypeName(param) = ""
  THEN <<NoElementType("param is a collection without an element type", <<param.name, op.id>>)>>
  ELSE IF param.in # "body"
  THEN IF Len(param.chain) > 0 /\ NestedItemsLoop(param.chain, 1)
       THEN <<NoElementType("param is a collection without an element type", <<param.name, op.id>>)>>
       ELSE << >>
  ELSE IF IsNil(param.schema) THEN <<NilDereference>>
  ELSE IF validateSchemaItems(param.schema[1])
  THEN <<NoElementType("body param is a collection without an element type", <<param.name, op.id>>)>>
  ELSE << >>

\* the body of the loop over the responses, for one response
ResponseItems(resp, op) ==
  {hs \o (IF ~IsNil(resp.schema) /\ validateSchemaItems(resp.schema[1])
          THEN <<NoElementType("response body is a collection without an element type", <<op.id>>)>>
          ELSE << >>) :
     hs \in RangeOver(DOMAIN resp.headers,
              [hn \in DOMAIN resp.headers |->
                 {IF TypeName(resp.headers[hn]) = "array" /\ ItemsTypeName(resp.headers[hn]) = ""
                  THEN <<NoElementType("header is a collection without an element type",
                                       <<<<hn>>, op.id>>)>>
                  ELSE << >>}])}

\* the responses of an operation: the default one, then the status codes
ResponsesItems(op) ==
  {a \o b :
     a \in (IF IsNil(op.responses.default) THEN {<< >>} ELSE ResponseItems(op.responses.default[1], op)),
     b \in RangeOver(DOMAIN op.responses.statusCodeResponses,
             [c \in DOMAIN op.responses.statusCodeResponses |->
                ResponseItems(op.responses.statusCodeResponses[c], op)])}

\* the body of the loop over the paths of a method in validateItems
OperationItems(d, method, path) ==
  LET op == d.operations[method][path]
      ps == ParamsFor(d, method, path)
  IN {Flatten([i \in 1..Len(ps) |-> ParamItems(ps[i], op)]) \o r : r \in ResponsesItems(op)}

\* a panic cuts the run at the dereference
Panicked(res) == \E i \in 1..Len(res) : res[i] = NilDereference

\* validateItems: every outcome, over every visiting order
validateItems(d) ==
  {Outcome(res, Panicked(res)) :
     res \in RangeOver(DOMAIN d.operations,
               [method \in DOMAIN d.operations |->
                  RangeOver(DOMAIN d.operations[method],
                    [path \in DOMAIN d.operations[method] |-> OperationItems(d, method, path)])])}

(***************************************************************************)
(* Operation IDs, samples, meta-schema and references                      *)
(***************************************************************************)

\* spec.Document, the parts Validate reads.  metaErrors is what the schema
\* validator says of the raw document against the Swagger 2.0 schema;
\* invalidDefaults and invalidExamples name the embedded sample values that
\* the schema, parameter, header and items validators reject.
Document(isDocument, rawValid, metaErrors, definitions, parameters, pathParameters, operations, invalidDefaults, invalidExamples) ==
  [isDocument |-> isDocument, rawValid |-> rawValid, metaErrors |-> metaErrors,
   definitions |-> definitions, parameters |-> parameters,
   pathParameters |-> pathParameters, operations |-> operations,
   invalidDefaults |-> invalidDefaults, invalidExamples |-> invalidExamples]

\* spec.Operation
Operation(id, parameters, responses) ==
  [id |-> id, parameters |-> parameters, responses |-> responses]

\* spec.Responses: Default is a pointer
Responses(default, statusCodeResponses) ==
  [default |-> default, statusCodeResponses |-> statusCodeResponses]

\* spec.Response
Response(headers, schema) == [headers |-> headers, schema |-> schema]

\* the (method, path) pairs of the document's operations
OperationKeys(d) ==
  UNION {{<<m, p>> : p \in DOMAIN d.operations[m]} : m \in DOMAIN d.operations}

\* s.spec.OperationIDs(), as the number of operations that carry each ID
OperationIDs(d) ==
  [id \in {d.operations[mp[1]][mp[2]].id : mp \in OperationKeys(d)} |->
     Cardinality({mp \in OperationKeys(d) : d.operations[mp[1]][mp[2]].id = id})]

\* the count without the test `if v != ""` of line 97
ValidateDuplicateOperationIDsWithEmpty(d) ==
  LET known == OperationIDs(d)
  IN {Outcome(res, FALSE) :
        res \in RangeOver(DOMAIN known,
                  [k \in DOMAIN known |->
                     {IF known[k] > 1
                      THEN <<NewError(422, "is defined times", <<k>>, known[k])>>
                      ELSE << >>}])}

\* validateDuplicateOperationIDs: known counts the non-empty IDs
validateDuplicateOperationIDs(d) ==
  LET ids   == OperationIDs(d)
      known == [k \in DOMAIN ids \ {<< >>} |-> ids[k]]
  IN {Outcome(res, FALSE) :
        res \in RangeOver(DOMAIN known,
                  [k \in DOMAIN known |->
                     {IF known[k] > 1
                      THEN <<NewError(422, "is defined times", <<k>>, known[k])>>
                      ELSE << >>}])}

\* validateDefaultValueValidAgainstSchema: the results of the validators of
\* the embedded default values, merged in the order the walk meets them
validateDefaultValueValidAgainstSchema(d) ==
  {Outcome(res, FALSE) :
     res \in RangeOver(d.invalidDefaults,
               [at \in d.invalidDefaults |-> {<<NewError(422, "default value is invalid", <<at>>, 0)>>}])}

\* validateExamplesValidAgainstSchema: likewise for the response examples
validateExamplesValidAgainstSchema(d) ==
  {Outcome(res, FALSE) :
     res \in RangeOver(d.invalidExamples,
               [at \in d.invalidExamples |-> {<<NewError(422, "example is invalid", <<at>>, 0)>>}])}

\* every $ref of the document
References(d) ==
  UNION {{d.pathParameters[p][i].ref : i \in 1..Len(d.pathParameters[p])} : p \in DOMAIN d.pathParameters}
  \cup UNION {UNION {{d.operations[m][p].parameters[i].ref : i \in 1..Len(d.operations[m][p].parameters)} :
                  p \in DOMAIN d.operations[m]} : m \in DOMAIN d.operations}
  \cup UNION {{d.definitions[k].allOf[i].ref : i \in 1..Len(d.definitions[k].allOf)} \cup
              UNION {{d.definitions[k].allOf[i].allOf[j].ref : j \in 1..Len(d.definitions[k].allOf[i].allOf)} :
                       i \in 1..Len(d.definitions[k].allOf)} : k \in DOMAIN d.definitions}

\* s.spec.Expanded() returns an error: some $ref has no target
ExpandedFails(d) ==
  \E ref \in References(d) \ {NoRef} :
     ~Resolvable(d.definitions, ref) /\ ~ParameterResolvable(d, ref)

\* the error s.spec.Expanded() returns
ExpansionError == NewError(0, "could not expand the references", << >>, 0)

\* validateReferencesValid
validateReferencesValid(d) ==
  IF ExpandedFails(d) THEN <<ExpansionError>> ELSE << >>

(***************************************************************************)
(* Validate                                                                *)
(***************************************************************************)

\* errs.Merge(r), or the panic that leaves Validate without a result
Merge(outcome, next) ==
  /\ errs' = IF outcome.panic THEN errs ELSE errs \o outcome.errs
  /\ pc' = IF outcome.panic THEN "panic" ELSE next
  /\ UNCHANGED <<doc, warnings, expanded, run, prev>>

\* Validate without its first gate: it goes on whatever the errors
ValidateSchemaUngated ==
  /\ pc = "Validate"
  /\ errs' = IF ~doc.isDocument
             THEN <<NewError(500, "spec validator can only validate spec.Document objects", << >>, 0)>>
             ELSE IF ~doc.rawValid
             THEN <<NewError(0, "invalid character", << >>, 0)>>
             ELSE doc.metaErrors
  /\ pc' = "validateReferencesValid"
  /\ UNCHANGED <<doc, warnings, expanded, run, prev>>

\* Validate up to the first gate: the type switch, json.Unmarshal, and the
\* Swagger 2.0 schema
ValidateSchema ==
  /\ pc = "Validate"
  /\ errs' = IF ~doc.isDocument
             THEN <<NewError(500, "spec validator can only validate spec.Document objects", << >>, 0)>>
             ELSE IF ~doc.rawValid
             THEN <<NewError(0, "invalid character", << >>, 0)>>
             ELSE doc.metaErrors
  /\ pc' = IF HasErrors(errs') THEN "done" ELSE "validateReferencesValid"
  /\ UNCHANGED <<doc, warnings, expanded, run, prev>>

\* errs.Merge(s.validateReferencesValid()) and the second gate
ValidateReferencesValid ==
  /\ pc = "validateReferencesValid"
  /\ errs' = errs \o validateReferencesValid(doc)
  /\ expanded' = IF ExpandedFails(doc) THEN << >> ELSE <<"expanded">>
  /\ pc' = IF HasErrors(errs') THEN "done" ELSE "validateDuplicateOperationIDs"
  /\ UNCHANGED <<doc, warnings, run, prev>>

ValidateDuplicateOperationIDs ==
  /\ pc = "validateDuplicateOperationIDs"
  /\ \E o \in validateDuplicateOperationIDs(doc) : Merge(o, "validateDuplicatePropertyNames")

ValidateDuplicatePropertyNames ==
  /\ pc = "validateDuplicatePropertyNames"
  /\ \E o \in validateDuplicatePropertyNames(doc) : Merge(o, "validateParameters")

ValidateParameters ==
  /\ pc = "validateParameters"
  /\ \E o \in validateParameters(doc) : Merge(o, "validateItems")

ValidateItems ==
  /\ pc = "validateItems"
  /\ \E o \in validateItems(doc) : Merge(o, "validateRequiredDefinitions")

ValidateRequiredDefinitions ==
  /\ pc = "validateRequiredDefinitions"
  /\ \E o \in validateRequiredDefinitions(doc) : Merge(o, "validateDefaultValueValidAgainstSchema")

ValidateDefaultValueValidAgainstSchema ==
  /\ pc = "validateDefaultValueValidAgainstSchema"
  /\ \E o \in validateDefaultValueValidAgainstSchema(doc) : Merge(o, "validateExamplesValidAgainstSchema")

ValidateExamplesValidAgainstSchema ==
  /\ pc = "validateExamplesValidAgainstSchema"
  /\ \E o \in validateExamplesValidAgainstSchema(doc) : Merge(o, "warnings")

\* the three warning hooks return nil, and Validate returns
ValidateWarnings ==
  /\ pc = "warnings"
  /\ pc' = "done"
  /\ UNCHANGED <<doc, errs, warnings, expanded, run, prev>>

\* the caller validates the same document once more
Revalidate ==
  /\ pc = "done"
  /\ run = 1
  /\ run' = 2
  /\ prev' = errs
  /\ errs' = << >>
  /\ expanded' = << >>
  /\ pc' = "Validate"
  /\ UNCHANGED <<doc, warnings>>

Next ==
  \/ ValidateSchema
  \/ ValidateReferencesValid
  \/ ValidateDuplicateOperationIDs
  \/ ValidateDuplicatePropertyNames
  \/ ValidateParameters
  \/ ValidateItems
  \/ ValidateRequiredDefinitions
  \/ ValidateDefaultValueValidAgainstSchema
  \/ ValidateExamplesValidAgainstSchema
  \/ ValidateWarnings
  \/ Revalidate

(***************************************************************************)
(* The documents validated                                                 *)
(***************************************************************************)

\* the longest allOf of the definition under study
MaxAllOf == 2

\* new(Result), and the fields of the validator before the first call
Fresh(d) ==
  /\ doc = d
  /\ pc = "Validate"
  /\ errs = << >>
  /\ warnings = << >>
  /\ expanded = << >>
  /\ run = 1
  /\ prev = << >>

NoOperations == [m \in {} |-> << >>]

\* a document that passes both gates and holds only definitions
DefinitionsOnly(definitions) ==
  Document(TRUE, TRUE, << >>, definitions, NoOperations, NoOperations, NoOperations, {}, {})

PropNames == {<<"a">>, <<"b">>}

\* {"$ref": "#/definitions/k"}
Ref(k) == Compose(DefinitionPointer(k), {}, << >>)

\* {"properties": {...}}
Inline(properties) == Compose(NoRef, properties, << >>)

\* the members an allOf is drawn from
Members ==
  {Ref(k) : k \in {"A", "B", "C"}} \cup {Inline({n}) : n \in PropNames}
  \cup {Inline(PropNames), Compose(NoRef, {}, <<Ref("B")>>)}

AllOfs(max) == UNION {[1..n -> Members] : n \in 0..max}

\* definitions A, B and C: A with an allOf of up to MaxAllOf members, B with
\* at most one member, C a plain object
DefinitionSets ==
  {[k \in {"A", "B", "C"} |->
      IF k = "A" THEN Compose(NoRef, pa, a)
      ELSE IF k = "B" THEN Compose(NoRef, pb, b)
      ELSE Inline({<<"a">>})] :
     pa \in {{}, {<<"a">>}}, a \in AllOfs(MaxAllOf), pb \in {{}, {<<"b">>}}, b \in AllOfs(1)}

InitDefinitions == \E defs \in DefinitionSets : Fresh(DefinitionsOnly(defs))

SpecDefinitions == InitDefinitions /\ [][Next]_vars

(***************************************************************************)
(* Properties of the definitions                                           *)
(***************************************************************************)

\* Validate has returned after running the structural checks
Checked == pc = "done" /\ expanded # << >>

ErrorsOf(kind) == SelectSeq(errs, LAMBDA e : e.kind = kind)

\* the errors of `kind` whose first argument names the definition k
ErrorsAbout(kind, k) == SelectSeq(errs, LAMBDA e : e.kind = kind /\ e.args[1] = <<k>>)

RECURSIVE Walk(_, _, _)
RECURSIVE WalkChildren(_, _, _, _)

\* the members of an allOf, walked in order with one visited set
WalkChildren(defs, children, i, visited) ==
  IF i > Len(children) THEN [cycle |-> FALSE, visited |-> visited]
  ELSE LET r == Walk(defs, children[i], visited)
       IN IF r.cycle THEN r ELSE WalkChildren(defs, children, i + 1, r.visited)

\* the walk of an allOf spine: crossing a $ref whose pointer is in the
\* visited set is a cycle, crossing any other adds its pointer to the set
Walk(defs, sch, visited) ==
  IF sch.ref # NoRef
  THEN IF sch.ref \in visited
       THEN [cycle |-> TRUE, visited |-> visited]
       ELSE WalkChildren(defs, ResolveRef(defs, sch.ref).allOf, 1, visited \cup {sch.ref})
  ELSE WalkChildren(defs, sch.allOf, 1, visited)

\* the walk of definition k re-encounters a visited pointer
Reencounters(defs, k) == Walk(defs, defs[k], {DefinitionPointer(k)}).cycle

\* C2: a definition gets a circular-ancestry error exactly when the walk of
\* its allOf spine, seeded with its own pointer, re-encounters a pointer that
\* is already in the visited set
C2_CircularIffReencounter ==
  Checked =>
    \A k \in DOMAIN doc.definitions :
      (Len(ErrorsAbout("has circular ancestry", k)) > 0) <=> Reencounters(doc.definitions, k)

\* the validator finds circular ancestry in definition k
Detected(defs, k) ==
  /\ Len(defs[k].allOf) > 0
  /\ Len(validateCircularAncestry(defs, <<k>>, defs[k], {DefinitionPointer(k)}).ancs) > 0

\* the property-name check of definition k, run on its own, finds duplicates
FindsDuplicates(defs, k) ==
  /\ Len(defs[k].allOf) > 0
  /\ \E d \in validateSchemaPropertyNames(defs, <<k>>, defs[k], {}, 0).dups : Len(d) > 0

\* C3: a definition found cyclic gets exactly one circular-ancestry error and
\* no duplicate-property error, and every other definition is still checked:
\* it gets its duplicate-property error exactly when its own check finds
\* duplicates, in whatever order the definitions are visited
C3_CycleAbortsOnlyItsDefinition ==
  Checked =>
    \A k \in DOMAIN doc.definitions :
      IF Detected(doc.definitions, k)
      THEN /\ Len(ErrorsAbout("has circular ancestry", k)) = 1
           /\ Len(ErrorsAbout("contains duplicate properties", k)) = 0
      ELSE /\ Len(ErrorsAbout("has circular ancestry", k)) = 0
           /\ (Len(ErrorsAbout("contains duplicate properties", k)) > 0)
                <=> FindsDuplicates(doc.definitions, k)

RECURSIVE SpineDeclarations(_, _)
\* the property sets declared along an allOf spine: the schema itself, its
\* inline members, and the definitions its members reference
SpineDeclarations(defs, sch) ==
  LET schc == IF sch.ref # NoRef THEN ResolveRef(defs, sch.ref) ELSE sch
  IN <<schc.properties>>
     \o Flatten([i \in 1..Len(schc.allOf) |-> SpineDeclarations(defs, schc.allOf[i])])

\* the names that more than one schema of the spine of k declares
DeclaredTwice(defs, k) ==
  LET decls == SpineDeclarations(defs, defs[k])
  IN {n \in UNION Range(decls) : Cardinality({i \in 1..Len(decls) : n \in decls[i]}) > 1}

\* the argument of a duplicate-properties error is <schema name>.n
Reports(arg, n) ==
  /\ Len(arg) > Len(n)
  /\ SubSeq(arg, Len(arg) - Len(n), Len(arg)) = <<".">> \o n

\* C10: for a definition with a non-empty, non-circular allOf, every property
\* name declared by more than one schema of its spine is reported in its
\* duplicate-properties error, and a definition whose spine declares every
\* name at most once gets no such error
C10_InheritedNamesFormASet ==
  Checked =>
    \A k \in DOMAIN doc.definitions :
      (Len(doc.definitions[k].allOf) > 0 /\ ~Reencounters(doc.definitions, k)) =>
        LET twice == DeclaredTwice(doc.definitions, k)
            dup   == ErrorsAbout("contains duplicate properties", k)
        IN /\ \A n \in twice :
                \E i \in 1..Len(dup) : \E j \in 2..Len(dup[i].args) : Reports(dup[i].args[j], n)
           /\ twice = {} => Len(dup) = 0

(***************************************************************************)
(* Properties of the required names                                        *)
(***************************************************************************)

\* the longest `required` of the definition under study
MaxRequired == 2

Names == {<<"a">>, <<"b">>, <<"a", "b">>}

\* ^a, b$, ^b$ and the malformed (
Patterns == {<<"^", "a">>, <<"b", "$">>, <<"^", "b", "$">>, <<"(">>}

\* `required` is a list of unique names (uniqueItems in the Swagger schema)
RequiredLists(max) ==
  {r \in UNION {[1..n -> Names] : n \in 0..max} : \A i, j \in 1..Len(r) : r[i] = r[j] => i = j}

\* definition D drawn from every combination, beside a definition E that
\* requires a name it does not declare
RequiredDefinitionSets ==
  {[k \in {"D", "E"} |->
      IF k = "D" THEN Schema(NoRef, props, << >>, req, pats, addl)
      ELSE Schema(NoRef, {}, << >>, <<<<"b">>>>, {}, "false")] :
     props \in SUBSET Names, req \in RequiredLists(MaxRequired),
     pats \in SUBSET Patterns, addl \in {"absent", "false", "true", "schema"}}

InitRequired == \E defs \in RequiredDefinitionSets : Fresh(DefinitionsOnly(defs))

SpecRequired == InitRequired /\ [][Next]_vars

\* what the regular expressions of Patterns mean: ^a is "starts with a",
\* b$ is "ends with b", ^b$ is "is b"; ( is no regular expression
Matches(pp, n) ==
  CASE pp = <<"^", "a">> -> n[1] = "a"
    [] pp = <<"b", "$">> -> n[Len(n)] = "b"
    [] pp = <<"^", "b", "$">> -> n = <<"b">>
    [] OTHER -> FALSE

\* the name n is declared by schema v: a property, a name some pattern
\* matches, or anything when additional properties are allowed
Declared(v, n) ==
  \/ n \in v.properties
  \/ \E pp \in v.patternProperties : Matches(pp, n)
  \/ v.additionalProperties \in {"true", "schema"}

MaxPaths == 3

\* the path templates of the documents, each with its canonical form and
\* the names of its placeholders, written out by hand
Templates ==
  { [path        |-> <<"/", "a", "/", "{", "x", "}">>,
     canonical   |-> <<"/", "a", "/", "!">>,
     placeholders |-> <<<<"x">>>>],
    [path        |-> <<"/", "a", "/", "{", "y", "}">>,
     canonical   |-> <<"/", "a", "/", "!">>,
     placeholders |-> <<<<"y">>>>],
    [path        |-> <<"/", "a", "/", "!">>,
     canonical   |-> <<"/", "a", "/", "!">>,
     placeholders |-> << >>],
    [path        |-> <<"/", "a", "/", "b">>,
     canonical   |-> <<"/", "a", "/", "b">>,
     placeholders |-> << >>],
    [path        |-> <<"/", "{", "x", "}", "/", "{", "y", "}">>,
     canonical   |-> <<"/", "!", "/", "!">>,
     placeholders |-> <<<<"x">>, <<"y">>>>],
    [path        |-> <<"/", "{", "y", "}", "/", "{", "x", "}">>,
     canonical   |-> <<"/", "!", "/", "!">>,
     placeholders |-> <<<<"y">>, <<"x">>>>],
    [path        |-> <<"/", "{", "x", "}", "/", "{", "x", "}">>,
     canonical   |-> <<"/", "!", "/", "!">>,
     placeholders |-> <<<<"x">>, <<"x">>>>] }

PathSet == {t.path : t \in Templates}

Template(path) == CHOOSE t \in Templates : t.path = path

NoResponses == Responses(<< >>, [c \in {} |-> << >>])

\* an operation without parameters, named after its method
Plain(method) == Operation(<<method>>, << >>, NoResponses)

\* a document that passes both gates and holds only operations
OperationsOnly(parameters, pathParameters, operations) ==
  Document(TRUE, TRUE, << >>, [k \in {} |-> << >>], parameters, pathParameters, operations, {}, {})

\* /a/{x}, /a/{y}, /a/!, /a/b and /{x}/{y}
OverlapPaths == {path \in PathSet : Len(Template(path).placeholders) < 2 \/ Template(path).placeholders = <<<<"x">>, <<"y">>>>}

\* GET with up to MaxPaths paths, POST with at most one
PathDocuments ==
  {OperationsOnly(NoOperations, NoOperations,
     [m \in {"GET", "POST"} |-> [q \in (IF m = "GET" THEN gets ELSE posts) |-> Plain(m)]]) :
     gets \in {g \in SUBSET OverlapPaths : Cardinality(g) <= MaxPaths},
     posts \in {g \in SUBSET OverlapPaths : Cardinality(g) <= 1}}

InitPaths == \E d \in PathDocuments : Fresh(d)

SpecPaths == InitPaths /\ [][Next]_vars

OverlapError(path, orig) == NewError(422, "path overlaps with", <<path, orig>>, 0)

\* the paths of method m that have the canonical form of path
Overlapping(d, m, path) ==
  {q \in DOMAIN d.operations[m] : Template(q).canonical = Template(path).canonical}

\* C5: overlap is decided per method on canonical forms.  Every overlap error
\* names two different paths of one method with equal canonical forms; two
\* paths that alone share a canonical form under a method produce exactly one
\* error between them, in either visiting order; the paths of equal canonical
\* form under a method produce one error less than there are of them, so
\* paths of different methods produce none
C5_OverlapPerMethodOnCanonicalPaths ==
  Checked =>
    /\ \A i \in 1..Len(errs) :
         errs[i].kind = "path overlaps with" =>
           \E m \in DOMAIN doc.operations :
             /\ errs[i].args[1] \in DOMAIN doc.operations[m]
             /\ errs[i].args[1] # errs[i].args[2]
             /\ errs[i].args[2] \in Overlapping(doc, m, errs[i].args[1])
    /\ \A m \in DOMAIN doc.operations : \A p1, p2 \in DOMAIN doc.operations[m] :
         (p1 # p2 /\ Overlapping(doc, m, p1) = {p1, p2}
            /\ \A o \in DOMAIN doc.operations \ {m} : ~({p1, p2} \subseteq DOMAIN doc.operations[o])) =>
           Count(errs, OverlapError(p1, p2)) + Count(errs, OverlapError(p2, p1)) = 1
    /\ \A path \in PathSet :
         Cardinality({i \in 1..Len(errs) : errs[i].kind = "path overlaps with"
                                            /\ Template(errs[i].args[1]).canonical = Template(path).canonical})
           = LET classes == {m \in DOMAIN doc.operations : Overlapping(doc, m, path) # {}}
                 Sum[S \in SUBSET classes] ==
                   IF S = {} THEN 0
                   ELSE LET m == CHOOSE m \in S : TRUE
                        IN Cardinality(Overlapping(doc, m, path)) - 1 + Sum[S \ {m}]
             IN Sum[classes]

\* GET holds exactly two paths of one canonical form and POST a third one:
\* a single overlap error is reported
C5_Witness ==
  /\ Checked
  /\ \E p1, p2 \in DOMAIN doc.operations["GET"] : \E p3 \in DOMAIN doc.operations["POST"] :
       /\ p1 # p2 /\ p3 \notin {p1, p2}
       /\ Overlapping(doc, "GET", p1) = {p1, p2}
       /\ Template(p3).canonical = Template(p1).canonical
       /\ Count(errs, OverlapError(p2, p1)) = 1
       /\ Len(ErrorsOf("path overlaps with")) = 1

\* the set of the diagnostics of a result
DiagnosticSet(res) == Range(res)

\* C4: two runs of Validate on the same document return the same set of
\* diagnostics, whatever the orders in which the maps were visited
C4_SameDiagnosticSet ==
  (pc = "done" /\ run = 2) => DiagnosticSet(errs) = DiagnosticSet(prev)

(***************************************************************************)
(* Properties of the parameters                                            *)
(***************************************************************************)

\* the most parameters an operation declares
MaxParams == 3

\* a parameter that is declared in place
Declare(name, in) == Parameter(NoRef, name, in, "string", << >>, << >>)

\* a body parameter, with its schema
Body(name) == Parameter(NoRef, name, "body", "", << >>, <<ItemsSchema(FALSE, << >>)>>)

\* {"$ref": "#/parameters/k"}
ParameterRef(k) == Parameter(<<"#/parameters/", k>>, << >>, "", "", << >>, << >>)

\* the parameters section of the document
SharedParameters == [k \in {"P"} |-> Declare(<<"x">>, "path")]

ParamSet ==
  {Declare(<<"x">>, "path"), Declare(<<"y">>, "path"), Declare(<<"x">>, "query"),
   Body(<<"b1">>), Body(<<"b2">>), Body(<<"b3">>), ParameterRef("P")}

ParamLists(max) == UNION {[1..n -> ParamSet] : n \in 0..max}

\* one GET operation on one path, with up to MaxParams parameters of its own
\* and at most one parameter on the path item
ParameterDocuments ==
  {OperationsOnly(SharedParameters, [q \in {path} |-> shared],
     [m \in {"GET"} |-> [q \in {path} |-> Operation(<<"op">>, params, NoResponses)]]) :
     path \in {<<"/", "a", "/", "{", "x", "}">>, <<"/", "a", "/", "b">>,
               <<"/", "{", "x", "}", "/", "{", "y", "}">>, <<"/", "{", "x", "}", "/", "{", "x", "}">>},
     params \in ParamLists(MaxParams),
     shared \in {<< >>, <<Declare(<<"y">>, "path")>>, <<Body(<<"b1">>)>>}}

InitParameters == \E d \in ParameterDocuments : Fresh(d)

SpecParameters == InitParameters /\ [][Next]_vars

\* paramsFor(method, path) with every $ref replaced by its target
ResolvedParamsFor(d, m, path) ==
  LET ps == ParamsFor(d, m, path)
  IN [i \in 1..Len(ps) |-> IF ps[i].ref # NoRef THEN d.parameters[ps[i].ref[2]] ELSE ps[i]]

\* the names of the parameters of paramsFor(method, path) that are `in`
NamesIn(d, m, path, in) ==
  LET ps == SelectSeq(ResolvedParamsFor(d, m, path), LAMBDA q : q.in = in)
  IN [i \in 1..Len(ps) |-> ps[i].name]

\* the sum of f[mp] over the operations mp of the document
SumOverOperations(d, f) ==
  LET Sum[S \in SUBSET OperationKeys(d)] ==
        IF S = {} THEN 0
        ELSE LET mp == CHOOSE mp \in S : TRUE IN f[mp] + Sum[S \ {mp}]
  IN Sum[OperationKeys(d)]

\* C6: per operation, one "has no parameter definition" error for every
\* {x} segment of the template without a path parameter named x, one "is not
\* present in path" error for every declared path parameter whose name is no
\* placeholder, and none of either when the two sets agree
C6_PlaceholdersAgreeWithPathParameters ==
  Checked =>
    /\ \A x \in {<<"x">>, <<"y">>} :
         Count(errs, NewError(422, "path param has no parameter definition",
                              <<<<"{">> \o x \o <<"}">>>>, 0))
           = SumOverOperations(doc,
               [mp \in OperationKeys(doc) |->
                  IF x \in Range(NamesIn(doc, mp[1], mp[2], "path")) THEN 0
                  ELSE Count(Template(mp[2]).placeholders, x)])
    /\ \A x \in {<<"x">>, <<"y">>} : \A path \in PathSet :
         Count(errs, NewError(422, "path param is not present in path", <<x, path>>, 0))
           = SumOverOperations(doc,
               [mp \in OperationKeys(doc) |->
                  IF mp[2] # path \/ x \in Range(Template(path).placeholders) THEN 0
                  ELSE Count(NamesIn(doc, mp[1], mp[2], "path"), x)])
    /\ (\A mp \in OperationKeys(doc) :
          Range(NamesIn(doc, mp[1], mp[2], "path")) = Range(Template(mp[2]).placeholders)) =>
         Len(ErrorsOf("path param has no parameter definition")) = 0
         /\ Len(ErrorsOf("path param is not present in path")) = 0

\* /a/{x} with a path parameter y: both errors are reported, once each
C6_Witness ==
  /\ Checked
  /\ \E mp \in OperationKeys(doc) :
       /\ Template(mp[2]).placeholders = <<<<"x">>>>
       /\ Range(NamesIn(doc, mp[1], mp[2], "path")) = {<<"y">>}
       /\ Count(errs, NewError(422, "path param has no parameter definition", <<<<"{", "x", "}">>>>, 0)) = 1
       /\ Count(errs, NewError(422, "path param is not present in path", <<<<"y">>, mp[2]>>, 0)) >= 1

\* C7: per operation, the first body parameter of paramsFor(method, path)
\* wins: n >= 1 body parameters yield n - 1 "more than 1 body param" errors,
\* each with the first body parameter as the accepted one and a later body
\* parameter as the dropped one; at most one body parameter yields none
C7_FirstBodyParameterWins ==
  Checked =>
    \A mp \in OperationKeys(doc) :
      LET bodies == NamesIn(doc, mp[1], mp[2], "body")
          more   == SelectSeq(errs, LAMBDA e : e.kind = "more than 1 body param"
                                                /\ e.args[1] = doc.operations[mp[1]][mp[2]].id)
      IN /\ Len(more) = IF Len(bodies) = 0 THEN 0 ELSE Len(bodies) - 1
         /\ \A i \in 1..Len(more) :
              /\ more[i].args[2] = bodies[1]
              /\ \E j \in 2..Len(bodies) : more[i].args[3] = bodies[j]

(***************************************************************************)
(* Properties of the arrays                                                *)
(***************************************************************************)

\* the longest chain of nested items of a parameter or header
MaxChain == 3

\* the deepest nesting of the items of a body or response schema
MaxNest == 1

\* the chains of nested items: "" is an element schema without a type
Chains == UNION {[1..n -> {"array", "string", ""}] : n \in 0..MaxChain}

\* the parameters and headers; only an array carries items
SimpleSchemas == {SimpleSchema("string", << >>)} \cup {SimpleSchema("array", c) : c \in Chains}

RECURSIVE SchemaTrees(_)
\* the schemas nested up to n deep; only an array carries items, which are
\* nil, empty, one schema or a tuple of two
SchemaTrees(n) ==
  IF n = 0
  THEN {ItemsSchema(FALSE, << >>), ItemsSchema(TRUE, << >>),
        ItemsSchema(TRUE, <<SchemaOrArray(<< >>, << >>)>>)}
  ELSE LET sub == SchemaTrees(n - 1)
       IN sub \cup {ItemsSchema(TRUE, <<SchemaOrArray(<<t>>, << >>)>>) : t \in sub}
              \cup {ItemsSchema(TRUE, <<SchemaOrArray(<< >>, <<t1, t2>>)>>) : t1 \in sub, t2 \in sub}

\* a non-body parameter named q with the type and items of x
Query(x) == Parameter(NoRef, <<"q">>, "query", x.type, x.chain, << >>)

BodyOf(schema) == Parameter(NoRef, <<"b">>, "body", "", << >>, <<schema>>)

\* one GET operation with the given parameters and responses
ItemsDocument(params, responses) ==
  OperationsOnly(NoOperations, NoOperations,
    [m \in {"GET"} |-> [q \in {<<"/", "a", "/", "b">>} |-> Operation(<<"op">>, params, responses)]])

\* the documents: a parameter, a header, a body schema or a response schema
\* drawn from every shape, beside roots of fixed shapes
ItemsDocuments ==
  {ItemsDocument(<<Query(x)>>, Responses(<<Response([h \in {} |-> << >>], <<t>>)>>, [c \in {} |-> << >>])) :
     x \in SimpleSchemas, t \in SchemaTrees(0)}
  \cup {ItemsDocument(<<Query(x)>>,
          Responses(<< >>, [c \in {200, 404} |-> Response([h \in {"h"} |-> y], << >>)])) :
          x \in {SimpleSchema("string", << >>), SimpleSchema("array", << >>)}, y \in SimpleSchemas}
  \cup {ItemsDocument(<<BodyOf(t)>>, NoResponses) : t \in SchemaTrees(MaxNest)}
  \cup {ItemsDocument(<< >>,
          Responses(<<Response([h \in {} |-> << >>], <<t>>)>>,
                    [c \in {200} |-> Response([h \in {"h", "g"} |-> SimpleSchema("array", << >>)], <<t>>)])) :
          t \in SchemaTrees(MaxNest)}

InitItems == \E d \in ItemsDocuments : Fresh(d)

SpecItems == InitItems /\ [][Next]_vars

RECURSIVE OffendingChain(_, _)
\* following the nested arrays from a parameter or header of this type and
\* these items reaches an array without an element type
OffendingChain(type, chain) ==
  /\ type = "array"
  /\ \/ Len(chain) = 0
     \/ chain[1] = ""
     \/ OffendingChain(chain[1], Tail(chain))

RECURSIVE OffendingSchema(_)
\* following the nested arrays from a schema reaches an array without items
OffendingSchema(t) ==
  /\ t.array
  /\ \/ Len(t.items) = 0
     \/ Len(t.items[1].schema) = 0 /\ Len(t.items[1].schemas) = 0
     \/ \E i \in 1..Len(t.items[1].schema) : OffendingSchema(t.items[1].schema[i])
     \/ Len(t.items[1].schema) = 0 /\ \E i \in 1..Len(t.items[1].schemas) : OffendingSchema(t.items[1].schemas[i])

\* the default response and the status-code responses of an operation
AllResponses(op) ==
  op.responses.default
  \o LET codes == DOMAIN op.responses.statusCodeResponses
         order == CHOOSE o \in Perms(codes) : TRUE
     IN [i \in 1..Cardinality(codes) |-> op.responses.statusCodeResponses[order[i]]]

\* C9: every parameter, response header and response body schema from which
\* the nested arrays reach an array without an element type produces exactly
\* one "collection without an element type" error, and every other root none
C9_OneErrorPerOffendingRoot ==
  Checked =>
    \A mp \in OperationKeys(doc) :
      LET op   == doc.operations[mp[1]][mp[2]]
          ps   == ParamsFor(doc, mp[1], mp[2])
          rs   == AllResponses(op)
          Hits(kind, args) == Count(errs, NoElementType(kind, args))
      IN /\ \A name \in {ps[i].name : i \in 1..Len(ps)} :
              /\ Hits("param is a collection without an element type", <<name, op.id>>)
                   = Cardinality({i \in 1..Len(ps) : ps[i].name = name /\ ps[i].in # "body"
                                                      /\ OffendingChain(ps[i].type, ps[i].chain)})
              /\ Hits("body param is a collection without an element type", <<name, op.id>>)
                   = Cardinality({i \in 1..Len(ps) : ps[i].name = name /\ ps[i].in = "body"
                                                      /\ OffendingSchema(ps[i].schema[1])})
         /\ \A hn \in UNION {DOMAIN rs[i].headers : i \in 1..Len(rs)} :
              Hits("header is a collection without an element type", <<<<hn>>, op.id>>)
                = Cardinality({i \in 1..Len(rs) : hn \in DOMAIN rs[i].headers
                                 /\ OffendingChain(rs[i].headers[hn].type, rs[i].headers[hn].chain)})
         /\ Hits("response body is a collection without an element type", <<op.id>>)
              = Cardinality({i \in 1..Len(rs) : Len(rs[i].schema) > 0 /\ OffendingSchema(rs[i].schema[1])})

(***************************************************************************)
(* Properties of the gates                                                 *)
(***************************************************************************)

\* what the schema validator reports of a document that is no Swagger 2.0
MetaSchemaError == NewError(422, "does not validate against the Swagger 2.0 schema", << >>, 0)

\* definitions with a circular ancestry, duplicate properties and a required
\* name that is not declared; with or without a $ref that has no target
GateDefinitions ==
  { [k \in {} |-> << >>],
    [k \in {"A", "B"} |->
       IF k = "A" THEN Schema(NoRef, {}, <<Inline({<<"a">>}), Inline({<<"a">>})>>, <<<<"b">>>>, {}, "false")
       ELSE Compose(NoRef, {}, <<Ref("B")>>)],
    [k \in {"A"} |-> Compose(NoRef, {}, <<Ref("Z")>>)] }

\* operations with overlapping paths, a repeated operation ID, placeholders
\* without parameters, two body parameters and an array without items; with
\* or without a parameter $ref that has no target
GateOperations ==
  { NoOperations,
    [m \in {"GET"} |->
       [q \in {<<"/", "a", "/", "{", "x", "}">>, <<"/", "a", "/", "{", "y", "}">>} |->
          Operation(<<"op">>, <<BodyOf(ItemsSchema(TRUE, << >>)), Body(<<"b1">>)>>, NoResponses)]],
    [m \in {"GET"} |->
       [q \in {<<"/", "a", "/", "b">>} |->
          Operation(<<"op">>, <<ParameterRef("Q"), Declare(<<"x">>, "path")>>, NoResponses)]] }

GateDocuments ==
  {Document(isDocument, rawValid, metaErrors, definitions, SharedParameters, NoOperations,
            operations, invalidDefaults, invalidExamples) :
     isDocument \in BOOLEAN, rawValid \in BOOLEAN,
     metaErrors \in {<< >>, <<MetaSchemaError>>, <<MetaSchemaError, MetaSchemaError>>},
     definitions \in GateDefinitions, operations \in GateOperations,
     invalidDefaults \in SUBSET {<<"definitions.A">>}, invalidExamples \in SUBSET {<<"/a/b">>}}

InitGates == \E d \in GateDocuments : Fresh(d)

SpecGates == InitGates /\ [][Next]_vars

\* the diagnostics of the first gate: the type switch, json.Unmarshal and
\* the Swagger 2.0 schema
FirstGateError(e) ==
  e.kind \in {"spec validator can only validate spec.Document objects", "invalid character",
              MetaSchemaError.kind}

\* C1: once the first gate has put an error into the result, Validate has
\* returned, the references were not expanded and no structural diagnostic
\* is in the result; once reference expansion has put its error there,
\* Validate has returned and no structural diagnostic is in the result
C1_GatedInOrder ==
  /\ (\E i \in 1..Len(errs) : FirstGateError(errs[i])) =>
       /\ pc = "done"
       /\ expanded = << >>
       /\ \A j \in 1..Len(errs) : FirstGateError(errs[j])
  /\ (\E i \in 1..Len(errs) : errs[i] = ExpansionError) =>
       /\ pc = "done"
       /\ errs = <<ExpansionError>>

\* some document could give a structural diagnostic
Flawed(d) ==
  \/ d.invalidDefaults # {}
  \/ \E m \in DOMAIN d.operations : Cardinality(DOMAIN d.operations[m]) > 1
  \/ \E k \in DOMAIN d.definitions : Len(d.definitions[k].required) > 0

\* Validate has returned the error of the Swagger 2.0 schema alone for a
\* document that also holds a $ref without a target and structural flaws
C1_Witness ==
  /\ pc = "done"
  /\ Flawed(doc)
  /\ ExpandedFails(doc)
  /\ errs = <<MetaSchemaError>>

(***************************************************************************)
(* Properties of the operation IDs                                         *)
(***************************************************************************)

\* the most operations of a document
MaxOperations == 5

\* the operation IDs: "", "a" and "b"
IDs == {<< >>, <<"a">>, <<"b">>}

\* GET, POST and PUT on /a/b and /{x}
IDSlots == {"GET", "POST", "PUT"} \X {<<"/", "a", "/", "b">>, <<"/", "{", "x", "}">>}

\* up to MaxOperations operations, each with a path parameter x and any ID
OperationIDDocuments ==
  {OperationsOnly(NoOperations, NoOperations,
     [m \in {mp[1] : mp \in slots} |->
        [q \in {mp[2] : mp \in {sl \in slots : sl[1] = m}} |->
           Operation(ids[<<m, q>>], IF Len(q) = 4 THEN << >> ELSE <<Declare(<<"x">>, "path")>>,
                     NoResponses)]]) :
     slots \in {sl \in SUBSET IDSlots : Cardinality(sl) <= MaxOperations},
     ids \in [IDSlots -> IDs]}

InitOperationIDs == \E d \in OperationIDDocuments : Fresh(d)

SpecOperationIDs == InitOperationIDs /\ [][Next]_vars

\* the number of operations of the document whose operationId is id
Occurrences(d, id) ==
  Cardinality({mp \in OperationKeys(d) : d.operations[mp[1]][mp[2]].id = id})

\* C11: in the result of a validation that ran its structural phases, the
\* error '"X" is defined N times' appears exactly once when X is a non-empty
\* ID that N > 1 operations carry, and never otherwise: not for an ID that
\* occurs once, not with another count, and not for the empty ID
C11_OneErrorPerRepeatedID ==
  Checked =>
    \A id \in IDs : \A n \in 0..(MaxOperations + 1) :
      Count(errs, NewError(422, "is defined times", <<id>>, n))
        = IF id # << >> /\ n > 1 /\ Occurrences(doc, id) = n THEN 1 ELSE 0

\* a validation has returned for a document with a repeated ID, an ID that
\* occurs once and two operations without an ID
C11_Witness ==
  /\ Checked
  /\ \E id \in IDs \ {<< >>} : Occurrences(doc, id) > 1 /\ Len(ErrorsAbout("is defined times", id[1])) = 1
  /\ \E id \in IDs \ {<< >>} : Occurrences(doc, id) = 1
  /\ Occurrences(doc, << >>) > 1

(***************************************************************************)
(* Properties of the parameter names                                       *)
(***************************************************************************)

\* x in the path, x in the query, and the shared parameter (x in the path)
UniqueParamSet == {Declare(<<"x">>, "path"), Declare(<<"x">>, "query"), ParameterRef("P")}

\* the operations "get" and "post" of /a/{x}, each with up to MaxParams
\* parameters of its own
UniqueDocuments ==
  {OperationsOnly(SharedParameters, NoOperations,
     [m \in {"GET", "POST"} |->
        [q \in {<<"/", "a", "/", "{", "x", "}">>} |->
           Operation(IF m = "GET" THEN <<"get">> ELSE <<"post">>,
                     IF m = "GET" THEN gets ELSE posts, NoResponses)]]) :
     gets \in UNION {[1..n -> UniqueParamSet] : n \in 0..MaxParams},
     posts \in UNION {[1..n -> UniqueParamSet] : n \in 0..MaxParams}}

InitUnique == \E d \in UniqueDocuments : Fresh(d)

SpecUnique == InitUnique /\ [][Next]_vars

\* the number of parameters of the operation that are, once a $ref is
\* replaced by the shared parameter it names, `name` in `in`
Occupants(d, op, in, name) ==
  Cardinality({i \in 1..Len(op.parameters) :
     LET q == op.parameters[i]
         t == IF q.ref = NoRef THEN q ELSE d.parameters[q.ref[2]]
     IN t.in = in /\ t.name = name})

\* C12: in the result of a validation that ran its structural phases, the
\* error 'duplicate parameter name "n" for "in" in operation "op"' appears
\* once for every parameter of op that is n in `in` beyond the first such
\* parameter, a $ref counting as the parameter it names; so a pair that
\* occurs once gives none, whatever the other `in` or the other operation
\* holds under the same name
C12_OneErrorPerRepeatedInName ==
  Checked =>
    \A mp \in OperationKeys(doc) : \A in \in {"path", "query", "body"} : \A name \in {<<"x">>} :
      LET op == doc.operations[mp[1]][mp[2]]
          n  == Occupants(doc, op, in, name)
      IN Count(errs, NewError(422, "duplicate parameter name", <<name, <<in>>, op.id>>, 0))
           = IF n > 1 THEN n - 1 ELSE 0

\* a validation has returned for GET with x in the path twice, once
\* through the $ref, and x in the query once, next to POST with x in the
\* path once: one error, for GET and the path
C12_Witness ==
  /\ Checked
  /\ DOMAIN doc.operations = {"GET", "POST"}
  /\ \E q \in DOMAIN doc.operations["GET"] :
        /\ q \in DOMAIN doc.operations["POST"]
        /\ doc.operations["GET"][q].parameters
             = <<Declare(<<"x">>, "path"), Declare(<<"x">>, "query"), ParameterRef("P")>>
        /\ doc.operations["POST"][q].parameters = <<Declare(<<"x">>, "path")>>
  /\ ErrorsOf("duplicate parameter name")
       = <<NewError(422, "duplicate parameter name", <<<<"x">>, <<"path">>, <<"get">>>>, 0)>>

(***************************************************************************)
(* Termination of the duplicate-property phase                             *)
(***************************************************************************)

RECURSIVE CircularAncestryCalls(_, _, _, _)
RECURSIVE CircularAncestryChildrenCalls(_, _, _, _, _)

\* the calls made by the loop over schc.AllOf, which stops at the first
\* child that returns ancestors
CircularAncestryChildrenCalls(defs, schn, children, i, knowns) ==
  IF i > Len(children) THEN << >>
  ELSE LET r == validateCircularAncestry(defs, schn, children[i], knowns)
       IN CircularAncestryCalls(defs, schn, children[i], knowns)
          \o (IF r.panic \/ Len(r.ancs) > 0 THEN << >>
              ELSE CircularAncestryChildrenCalls(defs, schn, children, i + 1, r.knowns))

\* the calls of validateCircularAncestry that one call sets off, itself
\* included, in order: the $ref of its schema, whether that pointer was in
\* knowns when the call began, and whether the call went on to the allOf of
\* the schema (lines 202-209)
CircularAncestryCalls(defs, nm, sch, knowns) ==
  IF sch.ref # NoRef /\ ~Resolvable(defs, sch.ref)
  THEN <<[ref |-> sch.ref, visited |-> sch.ref \in knowns, entered |-> FALSE]>>
  ELSE LET schc == IF sch.ref # NoRef THEN ResolveRef(defs, sch.ref) ELSE sch
           schn == IF sch.ref # NoRef THEN sch.ref ELSE nm
           kn   == IF sch.ref # NoRef THEN knowns \cup {schn} ELSE knowns
       IN <<[ref |-> sch.ref, visited |-> sch.ref \in knowns, entered |-> schn \notin kn]>>
          \o (IF schn \in kn THEN << >>
              ELSE CircularAncestryChildrenCalls(defs, schn, schc.allOf, 1, kn))

\* C13: the duplicate-property phase returns without exhausting the stack,
\* whatever the definitions reference through allOf.  For every definition
\* with an allOf: no call of validateCircularAncestry goes on to the allOf
\* of a pointer that was already visited, and no pointer is entered twice;
\* a definition whose spine re-encounters a visited pointer is found
\* circular, so the phase returns before validateSchemaPropertyNames is
\* started on it and it gets no duplicate-property error; and on every
\* definition that is not found circular validateSchemaPropertyNames returns
\* within the frames of the stack
C13_PhaseTerminates ==
  /\ pc # "panic"
  /\ \A k \in DOMAIN doc.definitions :
       Len(doc.definitions[k].allOf) > 0 =>
         LET defs  == doc.definitions
             calls == CircularAncestryCalls(defs, <<k>>, defs[k], {DefinitionPointer(k)})
         IN /\ \A i \in 1..Len(calls) : calls[i].visited => ~calls[i].entered
            /\ \A i, j \in 1..Len(calls) :
                 (i < j /\ calls[i].entered /\ calls[j].entered /\ calls[i].ref # NoRef)
                   => calls[i].ref # calls[j].ref
            /\ Reencounters(defs, k) => Detected(defs, k)
            /\ (Checked /\ Reencounters(defs, k))
                 => Len(ErrorsAbout("contains duplicate properties", k)) = 0
            /\ ~Detected(defs, k)
                 => ~validateSchemaPropertyNames(defs, <<k>>, defs[k], {}, 0).panic

\* a validation has returned with a circular-ancestry error for definitions
\* A and B that reference each other through allOf
C13_Witness ==
  /\ Checked
  /\ doc.definitions["A"].allOf = <<Ref("B")>>
  /\ doc.definitions["B"].allOf = <<Ref("A")>>
  /\ Len(ErrorsOf("has circular ancestry")) = 1

(***************************************************************************)
(* The specification over every document above                             *)
(***************************************************************************)

Init ==
  \E d \in GateDocuments \cup PathDocuments \cup ParameterDocuments \cup ItemsDocuments
           \cup OperationIDDocuments \cup UniqueDocuments
           \cup {DefinitionsOnly(defs) : defs \in DefinitionSets \cup RequiredDefinitionSets} :
     Fresh(d)

Spec == Init /\ [][Next]_vars

====
